---- MODULE Spec2Model ----
(***************************************************************************)
(* Model of the stsci-announce JupyterLab extension (hardened revision):   *)
(* the validated data model (Message, MessageBlock, AnnouncementsData),    *)
(* the parser jsonToAnnouncementsData and the poller RefreshAnnouncements. *)
(*                                                                         *)
(* Strings are sequences of one-character strings; the fixed markup that   *)
(* the toHtml methods emit is kept as single multi-character tokens.       *)
(* JSON values are records [t |-> type tag, v |-> content].                *)
(***************************************************************************)
EXTENDS Integers, Sequences, FiniteSets, TLC

\* ------------------------------------------------------------------ bounds
\* dialogs that may be open at once (the user can close them at any time)
MaxDialogs == 1
\* recovery-notice timers that may be pending at once
MaxRecoveryTimers == 2
\* poll timers and poll cycles that may be pending or in flight at once
MaxCycles == 2

\* ------------------------------------------------------------- characters
Digits == {"0", "1", "2", "3", "4", "5", "6", "7", "8", "9"}

LowerSeq ==
  << "a", "b", "c", "d", "e", "f", "g", "h", "i", "j", "k", "l", "m",
     "n", "o", "p", "q", "r", "s", "t", "u", "v", "w", "x", "y", "z" >>

UpperSeq ==
  << "A", "B", "C", "D", "E", "F", "G", "H", "I", "J", "K", "L", "M",
     "N", "O", "P", "Q", "R", "S", "T", "U", "V", "W", "X", "Y", "Z" >>

Lower == { LowerSeq[i] : i \in 1..26 }

Upper == { UpperSeq[i] : i \in 1..26 }

\* String.prototype.toUpperCase, one character
UpperChar(c) ==
  IF c \in Lower THEN UpperSeq[CHOOSE i \in 1..26 : LowerSeq[i] = c] ELSE c

toUpperCase(s) == [ i \in 1..Len(s) |-> UpperChar(s[i]) ]

\* Array.prototype.join('\n') of a sequence of strings
RECURSIVE Join(_)
Join(ss) ==
  IF ss = << >> THEN << >>
  ELSE IF Len(ss) = 1 THEN ss[1]
  ELSE ss[1] \o << "\n" >> \o Join(Tail(ss))

\* s.split('.')[0]: the part of s before its first '.'
RECURSIVE SplitDotFirst(_)
SplitDotFirst(s) ==
  IF s = << >> \/ Head(s) = "." THEN << >>
  ELSE << Head(s) >> \o SplitDotFirst(Tail(s))

\* ---------------------------------------------------------------- JSON
JNull == [t |-> "null", v |-> << >>]

JUndefined == [t |-> "undefined", v |-> << >>]

JNumber == [t |-> "number", v |-> << >>]

JBool(b) == [t |-> "boolean", v |-> b]

JStr(s) == [t |-> "string", v |-> s]

JArr(a) == [t |-> "array", v |-> a]

JObj(r) == [t |-> "object", v |-> r]

\* j.k throws a TypeError exactly when j is null or undefined
PropThrows(j) == j.t \in {"null", "undefined"}

\* j.k for a j that is neither null nor undefined (absent: undefined)
Prop(j, k) ==
  IF j.t = "object" /\ k \in DOMAIN j.v THEN j.v[k] ELSE JUndefined

\* ------------------------------------------------------------- sanitizers
\* innerHTML of a text node: '&', '<' and '>' become entities
EscapeChar(c) ==
  CASE c = "&" -> << "&", "a", "m", "p", ";" >>
    [] c = "<" -> << "&", "l", "t", ";" >>
    [] c = ">" -> << "&", "g", "t", ";" >>
    [] OTHER -> << c >>

RECURSIVE escapeHtml(_)
escapeHtml(html) ==
  IF html = << >> THEN << >>
  ELSE EscapeChar(Head(html)) \o escapeHtml(Tail(html))

\* createTextNode(v) of a value that is not a string: its String(v)
TextOf(j) ==
  CASE j.t = "string" -> j.v
    [] j.t = "undefined" -> << "u", "n", "d", "e", "f", "i", "n", "e", "d" >>
    [] j.t = "null" -> << "n", "u", "l", "l" >>
    [] j.t = "boolean" ->
         IF j.v THEN << "t", "r", "u", "e" >> ELSE << "f", "a", "l", "s", "e" >>
    [] OTHER -> << "0" >>

AllowedTags ==
  { << "a" >>, << "b" >>, << "i" >>, << "u" >>,
    << "s", "t", "r", "o", "n", "g" >>, << "e", "m" >>, << "b", "r" >>,
    << "p" >>, << "u", "l" >>, << "o", "l" >>, << "l", "i" >>,
    << "c", "o", "d", "e" >>, << "p", "r", "e" >> }

\* the letters at the start of s (a tag name)
RECURSIVE TagName(_)
TagName(s) ==
  IF s = << >> \/ Head(s) \notin (Lower \cup Upper) THEN << >>
  ELSE << Head(s) >> \o TagName(Tail(s))

Drop(s, k) == SubSeq(s, k + 1, Len(s))

\* the elements DOMPurify removes together with their content
ContentDropped ==
  { << "s", "c", "r", "i", "p", "t" >>, << "s", "t", "y", "l", "e" >> }

\* s from the end of the first closing tag </name> on (empty: none closes)
RECURSIVE AfterClose(_, _)
AfterClose(s, name) ==
  LET close == << "<", "/" >> \o name \o << ">" >>
  IN IF Len(s) < Len(close) THEN << >>
     ELSE IF SubSeq(s, 1, Len(close)) = close THEN Drop(s, Len(close))
     ELSE AfterClose(Tail(s), name)

\* the positions of s that hold a character with an entity
SpecialAt(s) == { i \in 1..Len(s) : s[i] \in {"&", "<", ">"} }

\* the length of the run of characters at the start of s that are
\* serialised as they are
PlainRun(s) ==
  IF SpecialAt(s) = {} THEN Len(s)
  ELSE (CHOOSE i \in SpecialAt(s) : \A j \in SpecialAt(s) : i <= j) - 1

\* DOMPurify.sanitize with the allow-list of the source, for attribute-free
\* tags <name> and </name>: an allowed tag is kept, a script or style element
\* is removed with its content, any other tag is removed and its content
\* kept, and a character that opens no tag is serialised as text ('&', '<'
\* and '>' as entities)
RECURSIVE sanitizeHtml(_)
sanitizeHtml(html) ==
  IF html = << >> THEN << >>
  ELSE IF Head(html) = "<"
  THEN LET close == Len(html) >= 2 /\ html[2] = "/"
           rest == IF close THEN Drop(html, 2) ELSE Drop(html, 1)
           name == TagName(rest)
           after == Drop(rest, Len(name))
           isTag == name # << >> /\ after # << >> /\ Head(after) = ">"
       IN IF ~isTag THEN EscapeChar("<") \o sanitizeHtml(Tail(html))
          ELSE IF name \in AllowedTags
          THEN SubSeq(html, 1, Len(html) - Len(after) + 1)
                 \o sanitizeHtml(Tail(after))
          ELSE IF ~close /\ name \in ContentDropped
          THEN sanitizeHtml(AfterClose(Tail(after), name))
          ELSE sanitizeHtml(Tail(after))
  ELSE IF PlainRun(html) > 0
  THEN SubSeq(html, 1, PlainRun(html)) \o sanitizeHtml(Drop(html, PlainRun(html)))
  ELSE EscapeChar(Head(html)) \o sanitizeHtml(Tail(html))

\* ---------------------------------------------------------------- Message
UsernameChars == Lower \cup Upper \cup Digits \cup {"_", "@", ".", "-"}

AllIn(s, lo, hi, set) == \A i \in lo..hi : s[i] \in set

\* /^[a-zA-Z0-9_@.-]+$/ with length 1..32
\* the username test without its upper length limit
UsernameOk_NoLengthCap(j) ==
  /\ j.t = "string"
  /\ Len(j.v) > 0
  /\ AllIn(j.v, 1, Len(j.v), UsernameChars)

UsernameOk(j) ==
  /\ j.t = "string"
  /\ Len(j.v) > 0
  /\ Len(j.v) <= 32
  /\ AllIn(j.v, 1, Len(j.v), UsernameChars)

\* /^\d\d\d\d-\d\d-\d\dT\d\d:\d\d(:\d\d(.\d\d\d(\d\d\d)?)?)?$/
\* (the '.' of the pattern is unescaped: it matches any character but a
\* line terminator)
TimestampMatches(s) ==
  /\ Len(s) \in {16, 19, 23, 26}
  /\ AllIn(s, 1, 4, Digits) /\ s[5] = "-"
  /\ AllIn(s, 6, 7, Digits) /\ s[8] = "-"
  /\ AllIn(s, 9, 10, Digits) /\ s[11] = "T"
  /\ AllIn(s, 12, 13, Digits) /\ s[14] = ":"
  /\ AllIn(s, 15, 16, Digits)
  /\ Len(s) >= 19 => (s[17] = ":" /\ AllIn(s, 18, 19, Digits))
  /\ Len(s) >= 23 => (s[20] # "\n" /\ AllIn(s, 21, 23, Digits))
  /\ Len(s) >= 26 => AllIn(s, 24, 26, Digits)

TimestampOk(j) == j.t = "string" /\ TimestampMatches(j.v)

\* /^\d+-\d\d:\d\d:\d\d$/
ExpiresMatches(s) ==
  LET k == Len(s) - 9
  IN /\ k >= 1
     /\ AllIn(s, 1, k, Digits)
     /\ s[k + 1] = "-"
     /\ AllIn(s, k + 2, k + 3, Digits) /\ s[k + 4] = ":"
     /\ AllIn(s, k + 5, k + 6, Digits) /\ s[k + 7] = ":"
     /\ AllIn(s, k + 8, k + 9, Digits)

ExpiresOk(j) == j.t = "string" /\ ExpiresMatches(j.v)

Levels ==
  { << "d", "e", "b", "u", "g" >>, << "i", "n", "f", "o" >>,
    << "n", "o", "t", "i", "c", "e" >>,
    << "w", "a", "r", "n", "i", "n", "g" >>,
    << "e", "r", "r", "o", "r" >>,
    << "c", "r", "i", "t", "i", "c", "a", "l" >> }

LevelOk(j) == j.t = "string" /\ j.v \in Levels

MessageTextOk(j) == j.t = "string" /\ Len(j.v) > 0 /\ Len(j.v) <= 1024

NoMessage ==
  [username |-> << >>, timestamp |-> << >>, expires |-> << >>,
   level |-> << >>, message |-> << >>]

\* new Message(username, timestamp, expires, level, message): the reason of
\* the ValidationError thrown ("" when none) and the object constructed
Message(username, timestamp, expires, level, message) ==
  IF ~UsernameOk(username)
  THEN [err |-> "Bad message username.", val |-> NoMessage]
  ELSE IF ~TimestampOk(timestamp)
  THEN [err |-> "Bad message timestamp.", val |-> NoMessage]
  ELSE IF ~ExpiresOk(expires)
  THEN [err |-> "Bad expires time.", val |-> NoMessage]
  ELSE IF ~LevelOk(level)
  THEN [err |-> "Bad level setting.", val |-> NoMessage]
  ELSE IF ~MessageTextOk(message)
  THEN [err |-> "Bad message content.", val |-> NoMessage]
  ELSE [err |-> "",
        val |-> [username |-> escapeHtml(username.v),
                 timestamp |-> escapeHtml(timestamp.v),
                 expires |-> escapeHtml(expires.v),
                 level |-> escapeHtml(level.v),
                 message |-> sanitizeHtml(message.v)]]

fmtTimestamp(m) ==
  << "<td class='announce-timestamp'>[" >> \o SplitDotFirst(m.timestamp)
    \o << "]</td>" >>

fmtLevel(m) ==
  << "<td class='announce-" >> \o m.level \o << "'>" >>
    \o toUpperCase(m.level) \o << "</td>" >>

fmtMessage(m) == << "<td class='announce-text'>" >> \o m.message \o << "</td>" >>

MessageToHtml(m) ==
  << "<tr>" >> \o fmtTimestamp(m) \o << " " >> \o fmtLevel(m)
    \o << " <td> &nbsp; </td> " >> \o fmtMessage(m) \o << "</tr>" >>

\* ----------------------------------------------------------- MessageBlock
NoBlock == [title |-> << >>, messages |-> << >>]

\* new MessageBlock(title, messages) for an array of Message objects
MessageBlock(title, messages) ==
  IF title.t # "string" \/ Len(title.v) <= 0 \/ Len(title.v) > 128
  THEN [err |-> "Bad title.", val |-> NoBlock]
  ELSE IF Len(messages) <= 0 \/ Len(messages) > 16
  THEN [err |-> "Bad messages array.", val |-> NoBlock]
  ELSE [err |-> "",
        val |-> [title |-> sanitizeHtml(title.v), messages |-> messages]]

MessageBlockToHtml(b) ==
  IF Len(b.messages) = 0 THEN << >>
  ELSE << "<table class=\"announcement-block\"><theader>",
          "<p class='announce-block-title'>" >> \o b.title
         \o << "</p></theader><tbody>" >>
         \o Join([ i \in 1..Len(b.messages) |-> MessageToHtml(b.messages[i]) ])
         \o << "</tbody></table>" >>

\* ------------------------------------------------------ AnnouncementsData
NoData == [popup |-> FALSE, timestamp |-> << >>, blocks |-> << >>]

\* new AnnouncementsData(popup, timestamp, blocks) for an array of
\* MessageBlock objects
AnnouncementsData(popup, timestamp, blocks) ==
  IF popup.t # "boolean"
  THEN [err |-> "Bad popup type.", val |-> NoData]
  ELSE [err |-> "",
        val |-> [popup |-> popup.v,
                 timestamp |-> escapeHtml(TextOf(timestamp)),
                 blocks |-> blocks]]

AnnouncementsToHtml(a) ==
  IF Len(a.blocks) = 0 THEN << >>
  ELSE << "<div class=\"announcement\">" >>
         \o Join([ i \in 1..Len(a.blocks) |-> MessageBlockToHtml(a.blocks[i]) ])
         \o << "<p/></div>" >>

\* ------------------------------------------------ jsonToAnnouncementsData
\* A parse result: kind is "ok", "ValidationError" or "TypeError" (a property
\* read of null or undefined), reason the error's message, built the number
\* of Message objects constructed before the parse ended.
ParseFail(kind, reason, built) ==
  [kind |-> kind, reason |-> reason, built |-> built, data |-> NoData]

\* new Message(msg.username, msg.timestamp, msg.expires, msg.level, msg.message)
NewMessage(msg) ==
  Message(Prop(msg, "username"), Prop(msg, "timestamp"), Prop(msg, "expires"),
          Prop(msg, "level"), Prop(msg, "message"))

RECURSIVE MapMessages(_, _)
\* the map over bdmessages once the constructor of its first message has
\* ended as m: a throw ends the map, a Message is appended
MapMessagesNext(m, bdmessages, acc) ==
  IF m.err # ""
  THEN [kind |-> "ValidationError", reason |-> m.err, val |-> acc]
  ELSE MapMessages(Tail(bdmessages), Append(acc, m.val))

\* bdmessages.map(msg => new Message(msg.username, ...)), left to right;
\* val holds the messages constructed so far
MapMessages(bdmessages, acc) ==
  IF bdmessages = << >> THEN [kind |-> "ok", reason |-> "", val |-> acc]
  ELSE IF PropThrows(Head(bdmessages))
  THEN [kind |-> "TypeError", reason |-> "username", val |-> acc]
  ELSE MapMessagesNext(NewMessage(Head(bdmessages)), bdmessages, acc)

\* return new MessageBlock(blockData.title, messages), ended as b
MapBlockReturn(b, built) ==
  IF b.err # ""
  THEN [kind |-> "ValidationError", reason |-> b.err, built |-> built,
        val |-> NoBlock]
  ELSE [kind |-> "ok", reason |-> "", built |-> built, val |-> b.val]

\* the callback of jsonData.blocks.map once bdmessages.map has ended as ms
MapBlockMessages(ms, title) ==
  IF ms.kind # "ok"
  THEN [kind |-> ms.kind, reason |-> ms.reason, built |-> Len(ms.val),
        val |-> NoBlock]
  ELSE MapBlockReturn(MessageBlock(title, ms.val), Len(ms.val))

\* the callback leaving the length check of bdmessages to the MessageBlock
\* constructor, which runs after the messages are constructed
MapBlockArray_MapsFirst(bdmessages, title) ==
  IF bdmessages.t # "array"
  THEN [kind |-> "ValidationError", reason |-> "Bad messages array.",
        built |-> 0, val |-> NoBlock]
  ELSE MapBlockMessages(MapMessages(bdmessages.v, << >>), title)

\* the callback of jsonData.blocks.map from its check of bdmessages on
MapBlockArray(bdmessages, title) ==
  IF bdmessages.t # "array" \/ Len(bdmessages.v) <= 0
     \/ Len(bdmessages.v) > 16
  THEN [kind |-> "ValidationError", reason |-> "Bad messages array.",
        built |-> 0, val |-> NoBlock]
  ELSE MapBlockMessages(MapMessages(bdmessages.v, << >>), title)

\* the callback of jsonData.blocks.map for one block
MapBlock(blockData) ==
  IF PropThrows(blockData)
  THEN [kind |-> "TypeError", reason |-> "messages", built |-> 0, val |-> NoBlock]
  ELSE MapBlockArray(Prop(blockData, "messages"), Prop(blockData, "title"))

RECURSIVE MapBlocks(_, _, _)
\* the map over blocks once the callback for its first block has ended as b
MapBlocksNext(b, blocks, acc, built) ==
  IF b.kind # "ok"
  THEN [kind |-> b.kind, reason |-> b.reason, built |-> built + b.built,
        val |-> acc]
  ELSE MapBlocks(Tail(blocks), Append(acc, b.val), built + b.built)

\* jsonData.blocks.map(...), left to right: the first block that throws ends it
MapBlocks(blocks, acc, built) ==
  IF blocks = << >>
  THEN [kind |-> "ok", reason |-> "", built |-> built, val |-> acc]
  ELSE MapBlocksNext(MapBlock(Head(blocks)), blocks, acc, built)

\* return new AnnouncementsData(jsonData.popup, jsonData.timestamp, blocks),
\* ended as a
ParseReturn(a, built) ==
  IF a.err # "" THEN ParseFail("ValidationError", a.err, built)
  ELSE [kind |-> "ok", reason |-> "", built |-> built, data |-> a.val]

\* jsonToAnnouncementsData once jsonData.blocks.map has ended as bs
ParseBlocks(bs, popup, timestamp) ==
  IF bs.kind # "ok" THEN ParseFail(bs.kind, bs.reason, bs.built)
  ELSE ParseReturn(AnnouncementsData(popup, timestamp, bs.val), bs.built)

jsonToAnnouncementsData(jsonData) ==
  IF PropThrows(jsonData) THEN ParseFail("TypeError", "blocks", 0)
  ELSE IF Prop(jsonData, "blocks").t # "array"
  THEN ParseFail("ValidationError", "Bad blocks array.", 0)
  ELSE ParseBlocks(MapBlocks(Prop(jsonData, "blocks").v, << >>, 0),
                   Prop(jsonData, "popup"), Prop(jsonData, "timestamp"))

\* ------------------------------------------------------------- payloads
\* The response bodies the server side of the model may send.
Ts == << "2", "0", "2", "4", "-", "0", "1", "-", "0", "2", "T",
         "0", "3", ":", "0", "4", ":", "0", "5" >>

TsFraction == Ts \o << ".", "1", "2", "3" >>

Expires == << "1", "-", "0", "0", ":", "0", "0", ":", "0", "0" >>

Info == << "i", "n", "f", "o" >>

Loud == << "l", "o", "u", "d" >>

Alice == << "a", "l", "i", "c", "e" >>

Bob == << "b", "o", "b", "@", "x", ".", "y" >>

Title == << "N", "e", "w", "s" >>

TextX == << "u", "p", " ", "<", "b", ">", "4", "<", "/", "b", ">" >>

TextY ==
  << "<", "i", ">", "x", "<", "/", "i", ">", " ", "&", " ",
     "<", "s", "c", "r", "i", "p", "t", ">", "y" >>

Msg(username, timestamp, level, message) ==
  JObj([username |-> JStr(username), timestamp |-> JStr(timestamp),
        expires |-> JStr(Expires), level |-> JStr(level),
        message |-> JStr(message)])

Block(title, messages) ==
  JObj([title |-> JStr(title), messages |-> JArr(messages)])

Body(popup, blocks) ==
  JObj([popup |-> JBool(popup), timestamp |-> JStr(Ts), blocks |-> JArr(blocks)])

Payloads ==
  << \* 1: content X, no popup
     Body(FALSE, << Block(Title, << Msg(Alice, Ts, Info, TextX) >>) >>),
     \* 2: popup, another author and a fractional timestamp: renders as 1 does
     Body(TRUE, << Block(Title, << Msg(Bob, TsFraction, Info, TextX) >>) >>),
     \* 3: content Y, popup
     Body(TRUE, << Block(Title, << Msg(Alice, Ts, Info, TextY) >>) >>),
     \* 4: no blocks, popup: renders to the empty string
     Body(TRUE, << >>),
     \* 5: a message with a level outside the enumeration
     Body(TRUE, << Block(Title, << Msg(Alice, Ts, Loud, TextX) >>) >>),
     \* 6: the JSON value null
     JNull >>

PayloadIds == 1..Len(Payloads)

\* the parse of each payload, and its rendering when the parse succeeds
Parsed == [ i \in PayloadIds |-> jsonToAnnouncementsData(Payloads[i]) ]

Rendered ==
  [ i \in PayloadIds |->
      IF Parsed[i].kind = "ok" THEN AnnouncementsToHtml(Parsed[i].data)
      ELSE << >> ]

\* ------------------------------------------------- RefreshAnnouncements
initialRetryDelay == 10000

maxRetryDelay == 600000

\* the delay of the timer that ends the recovery notice
RecoveryDelay == 3000

\* the refresh-interval setting: one value below and one above RecoveryDelay
Intervals == {1000, 300000}

\* the statuses a settled fetch may carry
Statuses == {200, 299, 300, 401, 403, 407, 499, 500, 599}

LabelSeen == "Announcements"

LabelUnseen == "Click for Announcements"

LabelRetrying == "Announcements (Retrying...)"

LabelUnavailable == "Announcements (Unavailable)"

LabelRestored == "Announcements Restored"

Tooltip(text, secs) == [text |-> text, secs |-> secs]

NoTooltip == Tooltip("", 0)

\* no function has been applied on its own
NoProbe == [op |-> "none"]

VARIABLES
  n,                      \* the refresh interval handed to updateAnnouncements
  started,                \* whether activate has called updateAnnouncements
  serviceState,           \* "normal", "degraded" or "failed"
  retryDelay,
  last_rendered,
  newAnnouncement,
  openAnnouncementButton, \* whether the button widget exists
  textContent,            \* the button's label
  color,                  \* the button's style.color
  title,                  \* the button's tooltip
  registrations,          \* calls of statusbar.registerStatusItem so far
  isDisposed,             \* whether dispose() was called on the button widget
  pollTimers,             \* the delays of the pending updateAnnouncements timers
  recoveryTimers,         \* pending timers of showRecoveryNotification
  fetching,               \* cycles waiting for their fetch to settle
  decoding,               \* cycles waiting for response.json() to settle
  dialogs,                \* the bodies of the open dialogs, oldest first
  lastCycle,              \* how the cycle that ended last ended
  backoffLog,             \* the backoff delays scheduled in the current run of faults
  probe,                  \* a function applied on its own: its input and result
  clickedSince            \* whether the button was clicked since a cycle ended

vars ==
  << n, started, serviceState, retryDelay, last_rendered, newAnnouncement,
     openAnnouncementButton, textContent, color, title, registrations,
     pollTimers, recoveryTimers, fetching, decoding, dialogs, lastCycle,
     backoffLog, clickedSince, probe, isDisposed >>

\* the fields of the instance and of its button, timers and dialogs, as one
\* value that the methods below transform
Self ==
  [serviceState |-> serviceState, retryDelay |-> retryDelay,
   last_rendered |-> last_rendered, newAnnouncement |-> newAnnouncement,
   openAnnouncementButton |-> openAnnouncementButton,
   textContent |-> textContent, color |-> color, title |-> title,
   registrations |-> registrations, pollTimers |-> pollTimers,
   recoveryTimers |-> recoveryTimers, dialogs |-> dialogs]

\* the instance after a method has run: the assignment of its fields
Commit(s) ==
  /\ Len(s.dialogs) <= MaxDialogs
  /\ s.recoveryTimers <= MaxRecoveryTimers
  /\ serviceState' = s.serviceState
  /\ retryDelay' = s.retryDelay
  /\ last_rendered' = s.last_rendered
  /\ newAnnouncement' = s.newAnnouncement
  /\ openAnnouncementButton' = s.openAnnouncementButton
  /\ textContent' = s.textContent
  /\ color' = s.color
  /\ title' = s.title
  /\ registrations' = s.registrations
  /\ pollTimers' = s.pollTimers
  /\ recoveryTimers' = s.recoveryTimers
  /\ dialogs' = s.dialogs

isPermissionError(status) == status = 401 \/ status = 403 \/ status = 407

\* shouldRetry with the lower end of the 5xx range excluded
shouldRetry_Over500(status) ==
  isPermissionError(status) \/ (status > 500 /\ status < 600)

shouldRetry(status) ==
  isPermissionError(status) \/ (status >= 500 /\ status < 600)

\* Response.ok
ResponseOk(status) == status >= 200 /\ status <= 299

updateButtonForServiceState(s) ==
  IF ~s.openAnnouncementButton THEN s
  ELSE CASE s.serviceState = "normal" ->
              [s EXCEPT !.textContent =
                          IF ~s.newAnnouncement THEN LabelSeen ELSE LabelUnseen,
                        !.color = ""]
         [] s.serviceState = "degraded" ->
              [s EXCEPT !.textContent = LabelRetrying, !.color = "orange"]
         [] s.serviceState = "failed" ->
              [s EXCEPT !.textContent = LabelUnavailable, !.color = "red"]

updateButtonTooltip(s) ==
  IF ~s.openAnnouncementButton THEN s
  ELSE CASE s.serviceState = "normal" ->
              [s EXCEPT !.title = Tooltip("Click to view announcements", 0)]
         [] s.serviceState = "degraded" ->
              [s EXCEPT !.title = Tooltip("Retrying in", s.retryDelay \div 1000)]
         [] s.serviceState = "failed" ->
              [s EXCEPT !.title = Tooltip("Will retry periodically", 0)]

\* setTimeout(() => { updateButtonForServiceState(); updateButtonTooltip() }, 3000)
showRecoveryNotification(s) ==
  IF ~s.openAnnouncementButton THEN s
  ELSE [s EXCEPT !.textContent = LabelRestored,
                 !.color = "green",
                 !.title = Tooltip("Announcement service has been restored", 0),
                 !.recoveryTimers = @ + 1]

\* the callback of the timer that showRecoveryNotification sets
RecoveryCallback(s) == updateButtonTooltip(updateButtonForServiceState(s))

\* createAnnouncementsButton constructing and registering a widget on
\* every call
createAnnouncementsButton_AlwaysRegisters(s, isNew) ==
  [s EXCEPT !.openAnnouncementButton = TRUE,
            !.registrations = @ + 1,
            !.textContent = IF ~isNew THEN LabelSeen ELSE LabelUnseen]

createAnnouncementsButton(s, isNew) ==
  LET s1 == IF ~s.openAnnouncementButton
            THEN [s EXCEPT !.openAnnouncementButton = TRUE,
                           !.registrations = @ + 1]
            ELSE s
  IN [s1 EXCEPT !.textContent = IF ~isNew THEN LabelSeen ELSE LabelUnseen]

\* openAnnouncements forgetting the rendering it has shown
openAnnouncements_ForgetsRendering(s) ==
  [s EXCEPT !.newAnnouncement = FALSE,
            !.dialogs = Append(@, s.last_rendered),
            !.last_rendered = << >>]

\* openAnnouncements leaving the announcement marked as new
openAnnouncements_KeepsUnseen(s) ==
  [s EXCEPT !.dialogs = Append(@, s.last_rendered)]

\* showDialog is called with a body that holds last_rendered
openAnnouncements(s) ==
  [s EXCEPT !.newAnnouncement = FALSE,
            !.dialogs = Append(@, s.last_rendered)]

\* ButtonWidget's node.onclick
onclick(s) ==
  LET s1 == openAnnouncements([s EXCEPT !.newAnnouncement = FALSE])
  IN createAnnouncementsButton(s1, s1.newAnnouncement)

\* setTimeout(() => { this.updateAnnouncements(url, n) }, delay)
SetPollTimer(s, delay) == [s EXCEPT !.pollTimers = Append(@, delay)]

\* the non-retryable branch without the recovery notice
NonRetryableBranch_NoNotice(s, interval) ==
  LET s1 == [s EXCEPT !.retryDelay = initialRetryDelay,
                      !.serviceState = "normal"]
      s3 == IF s1.openAnnouncementButton
            THEN [s1 EXCEPT !.textContent = ""]
            ELSE s1
  IN SetPollTimer(s3, interval)

\* updateAnnouncements, a response that is not ok and not retried
NonRetryableBranch(s, interval) ==
  LET wasServiceDegraded == s.serviceState # "normal"
      s1 == [s EXCEPT !.retryDelay = initialRetryDelay,
                      !.serviceState = "normal"]
      s2 == IF wasServiceDegraded THEN showRecoveryNotification(s1) ELSE s1
      s3 == IF s2.openAnnouncementButton
            THEN [s2 EXCEPT !.textContent = ""]
            ELSE s2
  IN SetPollTimer(s3, interval)

\* the success branch marking every rendering as new
SuccessBranch_AlwaysNew(s, interval, announcements, rendered) ==
  LET wasServiceDegraded == s.serviceState # "normal"
      s1 == [s EXCEPT !.serviceState = "normal",
                      !.retryDelay = initialRetryDelay]
      s2 == [s1 EXCEPT !.newAnnouncement = TRUE, !.last_rendered = rendered]
      s3 == createAnnouncementsButton(s2, s2.newAnnouncement)
      s4 == IF wasServiceDegraded
            THEN showRecoveryNotification(s3)
            ELSE updateButtonTooltip(updateButtonForServiceState(s3))
      s5 == IF s4.newAnnouncement /\ announcements.popup
            THEN openAnnouncements(s4)
            ELSE s4
      s6 == IF s2.openAnnouncementButton
            THEN [s2 EXCEPT !.textContent = ""]
            ELSE s2
  IN SetPollTimer(IF Len(s2.last_rendered) > 0 THEN s5 ELSE s6, interval)

\* the success branch opening the modal whenever popup is set
SuccessBranch_PopupAlways(s, interval, announcements, rendered) ==
  LET wasServiceDegraded == s.serviceState # "normal"
      s1 == [s EXCEPT !.serviceState = "normal",
                      !.retryDelay = initialRetryDelay]
      s2 == IF rendered # s1.last_rendered
            THEN [s1 EXCEPT !.newAnnouncement = TRUE,
                            !.last_rendered = rendered]
            ELSE s1
      s3 == createAnnouncementsButton(s2, s2.newAnnouncement)
      s4 == IF wasServiceDegraded
            THEN showRecoveryNotification(s3)
            ELSE updateButtonTooltip(updateButtonForServiceState(s3))
      s5 == IF announcements.popup THEN openAnnouncements(s4) ELSE s4
      s6 == IF s2.openAnnouncementButton
            THEN [s2 EXCEPT !.textContent = ""]
            ELSE s2
  IN SetPollTimer(IF Len(s2.last_rendered) > 0 THEN s5 ELSE s6, interval)

\* the success branch without its test of last_rendered.length
SuccessBranch_IgnoresEmpty(s, interval, announcements, rendered) ==
  LET wasServiceDegraded == s.serviceState # "normal"
      s1 == [s EXCEPT !.serviceState = "normal",
                      !.retryDelay = initialRetryDelay]
      s2 == IF rendered # s1.last_rendered
            THEN [s1 EXCEPT !.newAnnouncement = TRUE,
                            !.last_rendered = rendered]
            ELSE s1
      s3 == createAnnouncementsButton(s2, s2.newAnnouncement)
      s4 == IF wasServiceDegraded
            THEN showRecoveryNotification(s3)
            ELSE updateButtonTooltip(updateButtonForServiceState(s3))
      s5 == IF s4.newAnnouncement /\ announcements.popup
            THEN openAnnouncements(s4)
            ELSE s4
  IN SetPollTimer(s5, interval)

\* updateAnnouncements from the validated announcements to its last line
SuccessBranch(s, interval, announcements, rendered) ==
  LET wasServiceDegraded == s.serviceState # "normal"
      s1 == [s EXCEPT !.serviceState = "normal",
                      !.retryDelay = initialRetryDelay]
      s2 == IF rendered # s1.last_rendered
            THEN [s1 EXCEPT !.newAnnouncement = TRUE,
                            !.last_rendered = rendered]
            ELSE s1
      s3 == createAnnouncementsButton(s2, s2.newAnnouncement)
      s4 == IF wasServiceDegraded
            THEN showRecoveryNotification(s3)
            ELSE updateButtonTooltip(updateButtonForServiceState(s3))
      s5 == IF s4.newAnnouncement /\ announcements.popup
            THEN openAnnouncements(s4)
            ELSE s4
      s6 == IF s2.openAnnouncementButton
            THEN [s2 EXCEPT !.textContent = ""]
            ELSE s2
  IN SetPollTimer(IF Len(s2.last_rendered) > 0 THEN s5 ELSE s6, interval)

\* the give-up branch leaving retryDelay at the cap
GiveUp_KeepsDelay(s, interval) ==
  LET s1 == [s EXCEPT !.serviceState = "failed"]
      s2 == IF ~s1.openAnnouncementButton
            THEN createAnnouncementsButton(s1, FALSE)
            ELSE s1
      s3 == updateButtonTooltip(updateButtonForServiceState(s2))
  IN SetPollTimer(s3, interval)

\* the two branches of the catch block for an error that is no
\* ValidationError: retryDelay at the cap, and below it
GiveUp(s, interval) ==
  LET s1 == [s EXCEPT !.serviceState = "failed"]
      s2 == IF ~s1.openAnnouncementButton
            THEN createAnnouncementsButton(s1, FALSE)
            ELSE s1
      s3 == updateButtonTooltip(updateButtonForServiceState(s2))
      s4 == [s3 EXCEPT !.retryDelay = initialRetryDelay]
  IN SetPollTimer(s4, interval)

BackOff(s) ==
  LET s1 == [s EXCEPT !.serviceState = "degraded"]
      s2 == IF ~s1.openAnnouncementButton
            THEN createAnnouncementsButton(s1, FALSE)
            ELSE s1
      s3 == updateButtonTooltip(updateButtonForServiceState(s2))
      s4 == SetPollTimer(s3, s3.retryDelay)
  IN [s4 EXCEPT !.retryDelay =
                  IF s4.retryDelay * 2 <= maxRetryDelay
                  THEN s4.retryDelay * 2 ELSE maxRetryDelay]

\* the catch block giving up at any retryDelay
CatchBlock_GivesUpEarly(s, interval, e) ==
  IF e = "ValidationError" THEN SetPollTimer(s, interval)
  ELSE IF s.retryDelay >= initialRetryDelay THEN GiveUp(s, interval)
  ELSE BackOff(s)

\* the catch block giving up only above the cap
CatchBlock_StrictCap(s, interval, e) ==
  IF e = "ValidationError" THEN SetPollTimer(s, interval)
  ELSE IF s.retryDelay > maxRetryDelay THEN GiveUp(s, interval)
  ELSE BackOff(s)

\* the catch block rescheduling after the backoff delay when it gives up
CatchBlock_BackoffWhenFailed(s, interval, e) ==
  IF e = "ValidationError" THEN SetPollTimer(s, interval)
  ELSE IF s.retryDelay >= maxRetryDelay THEN GiveUp(s, s.retryDelay)
  ELSE BackOff(s)

\* the catch block without its ValidationError branch
CatchBlock_NoValidationBranch(s, interval, e) ==
  IF s.retryDelay >= maxRetryDelay THEN GiveUp(s, interval)
  ELSE BackOff(s)

\* the catch block with the return of its ValidationError branch missing
CatchBlock_ValidationFallsThrough(s, interval, e) ==
  LET s0 == IF e = "ValidationError" THEN SetPollTimer(s, interval) ELSE s
  IN IF s0.retryDelay >= maxRetryDelay THEN GiveUp(s0, interval)
     ELSE BackOff(s0)

\* the catch block with no timer set in its ValidationError branch
CatchBlock_ValidationStops(s, interval, e) ==
  IF e = "ValidationError" THEN s
  ELSE IF s.retryDelay >= maxRetryDelay THEN GiveUp(s, interval)
  ELSE BackOff(s)

\* the catch block of updateAnnouncements, for an error of class e
CatchBlock(s, interval, e) ==
  IF e = "ValidationError" THEN SetPollTimer(s, interval)
  ELSE IF s.retryDelay >= maxRetryDelay THEN GiveUp(s, interval)
  ELSE BackOff(s)

\* ---------------------------------------------------------------- history
\* what the cycle that ended last was given: stage "fetch" with the
\* response's status (0: the fetch was rejected), or stage "json" with the
\* payload decoded (0: response.json() was rejected); stage "none" at first;
\* again tells that the cycle before it was given the same and that the
\* button was not clicked in between
CycleInput(stage, status, payload) ==
  [stage |-> stage, status |-> status, payload |-> payload, again |-> FALSE]

\* the delay of the timer s has set last (0: none)
LastDelay(s) ==
  IF s.pollTimers = << >> THEN 0 ELSE s.pollTimers[Len(s.pollTimers)]

\* a connectivity fault: a rejected fetch, or a response with a permission
\* status or a 5xx status
ConnectivityFault(input) ==
  /\ input.stage = "fetch"
  /\ \/ input.status \in {0, 401, 403, 407}
     \/ input.status \in 500..599

\* the backoff delays scheduled by the current run of consecutive
\* connectivity faults: a fault that leaves the service failed keeps the log
\* and the fault after it starts a new run; any other cycle empties the log
NextBackoffLog(s, input) ==
  IF ~ConnectivityFault(input) THEN << >>
  ELSE IF s.serviceState = "failed" THEN backoffLog
  ELSE Append(IF serviceState = "failed" THEN << >> ELSE backoffLog,
              LastDelay(s))

\* ---------------------------------------------------------------- actions
Init ==
  /\ n \in Intervals
  /\ started = FALSE
  /\ serviceState = "normal"
  /\ retryDelay = initialRetryDelay
  /\ last_rendered = << >>
  /\ newAnnouncement = FALSE
  /\ openAnnouncementButton = FALSE
  /\ textContent = ""
  /\ color = ""
  /\ title = NoTooltip
  /\ registrations = 0
  /\ pollTimers = << >>
  /\ recoveryTimers = 0
  /\ fetching = 0
  /\ decoding = 0
  /\ dialogs = << >>
  /\ lastCycle = CycleInput("none", 0, 0)
  /\ backoffLog = << >>
  /\ clickedSince = FALSE
  /\ probe = NoProbe
  /\ isDisposed = FALSE

\* a cycle ends at its fetch (atJson FALSE) or at its response.json(), and
\* leaves the instance as s
EndCycle(s, input, atJson) ==
  /\ Commit(s)
  /\ fetching' = IF atJson THEN fetching ELSE fetching - 1
  /\ decoding' = IF atJson THEN decoding - 1 ELSE decoding
  /\ Len(s.pollTimers) + fetching' + decoding' <= MaxCycles
  /\ lastCycle' =
       [input EXCEPT !.again = ~clickedSince
                                 /\ lastCycle.stage = input.stage
                                 /\ lastCycle.status = input.status
                                 /\ lastCycle.payload = input.payload]
  /\ backoffLog' = NextBackoffLog(s, input)
  /\ clickedSince' = FALSE
  /\ UNCHANGED << probe, isDisposed, n, started >>

\* activate: myObject.updateAnnouncements(apiUrl, refreshInterval)
Activate ==
  /\ ~started
  /\ started' = TRUE
  /\ fetching' = fetching + 1
  /\ UNCHANGED << probe, isDisposed, n, serviceState, retryDelay, last_rendered, newAnnouncement,
                  openAnnouncementButton, textContent, color, title,
                  registrations, pollTimers, recoveryTimers, decoding, dialogs,
                  lastCycle, backoffLog, clickedSince >>

\* a poll timer fires and updateAnnouncements issues its fetch; a recovery
\* timer is set no later than the poll timer of its cycle, so it fires
\* first unless the poll timer's delay is the shorter one
PollTimerFires ==
  \E i \in DOMAIN pollTimers :
    /\ pollTimers[i] >= RecoveryDelay => recoveryTimers = 0
    /\ pollTimers' = SubSeq(pollTimers, 1, i - 1)
                       \o SubSeq(pollTimers, i + 1, Len(pollTimers))
    /\ fetching' = fetching + 1
    /\ UNCHANGED << probe, isDisposed, n, started, serviceState, retryDelay, last_rendered,
                    newAnnouncement, openAnnouncementButton, textContent,
                    color, title, registrations, recoveryTimers, decoding,
                    dialogs, lastCycle, backoffLog, clickedSince >>

\* await fetch(...) throws
FetchRejects ==
  /\ fetching > 0
  /\ EndCycle(CatchBlock(Self, n, "TypeError"), CycleInput("fetch", 0, 0), FALSE)

\* await fetch(...) returns a response
FetchResolves ==
  /\ fetching > 0
  /\ \E status \in Statuses :
       IF ~ResponseOk(status) /\ shouldRetry(status)
       THEN EndCycle(CatchBlock(Self, n, "Error"),
                     CycleInput("fetch", status, 0), FALSE)
       ELSE IF ~ResponseOk(status)
       THEN EndCycle(NonRetryableBranch(Self, n),
                     CycleInput("fetch", status, 0), FALSE)
       ELSE /\ fetching' = fetching - 1
            /\ decoding' = decoding + 1
            /\ UNCHANGED << probe, isDisposed, n, started, serviceState, retryDelay,
                            last_rendered, newAnnouncement,
                            openAnnouncementButton, textContent, color, title,
                            registrations, pollTimers, recoveryTimers, dialogs,
                            lastCycle, backoffLog, clickedSince >>

\* await response.json() throws: the body is not JSON, or the read failed
JsonRejects ==
  /\ decoding > 0
  /\ EndCycle(CatchBlock(Self, n, "SyntaxError"), CycleInput("json", 200, 0), TRUE)

\* await response.json() returns the decoded payload
JsonResolves ==
  /\ decoding > 0
  /\ \E i \in PayloadIds :
       IF Parsed[i].kind = "ok"
       THEN EndCycle(SuccessBranch(Self, n, Parsed[i].data, Rendered[i]),
                     CycleInput("json", 200, i), TRUE)
       ELSE EndCycle(CatchBlock(Self, n, Parsed[i].kind),
                     CycleInput("json", 200, i), TRUE)

\* the timer of showRecoveryNotification fires
RecoveryTimerFires ==
  /\ recoveryTimers > 0
  /\ Commit([RecoveryCallback(Self) EXCEPT !.recoveryTimers = @ - 1])
  /\ UNCHANGED << probe, isDisposed, n, started, fetching, decoding, lastCycle, backoffLog,
                  clickedSince >>

\* the user clicks the button
Click ==
  /\ openAnnouncementButton
  /\ Commit(onclick(Self))
  /\ clickedSince' = TRUE
  /\ UNCHANGED << probe, isDisposed, n, started, fetching, decoding, lastCycle, backoffLog >>

\* the user closes one of the open dialogs
CloseDialog ==
  \E i \in DOMAIN dialogs :
    /\ dialogs' = SubSeq(dialogs, 1, i - 1) \o SubSeq(dialogs, i + 1, Len(dialogs))
    /\ UNCHANGED << probe, isDisposed, n, started, serviceState, retryDelay, last_rendered,
                    newAnnouncement, openAnnouncementButton, textContent,
                    color, title, registrations, pollTimers, recoveryTimers,
                    fetching, decoding, lastCycle, backoffLog, clickedSince >>

Next ==
  \/ Activate
  \/ PollTimerFires
  \/ FetchRejects
  \/ FetchResolves
  \/ JsonRejects
  \/ JsonResolves
  \/ RecoveryTimerFires
  \/ Click
  \/ CloseDialog

Spec == Init /\ [][Next]_vars

\* timers fire
FairSpec ==
  /\ Spec
  /\ WF_vars(PollTimerFires)
  /\ WF_vars(RecoveryTimerFires)

\* ------------------------------------------- functions applied on their own
\* document.createTextNode(data)
createTextNode(data) == [nodeType |-> "text", data |-> data]

\* innerText of an element that is not rendered: its textContent, the data
\* of its text nodes in order
RECURSIVE innerText(_)
innerText(childNodes) ==
  IF childNodes = << >> THEN << >>
  ELSE Head(childNodes).data \o innerText(Tail(childNodes))

\* escapeHtml of the simple revision: a div that is never attached gets the
\* text node, and its innerText (not its innerHTML) is returned
escapeHtmlSimple(html) == innerText(<< createTextNode(html) >>)

\* the characters that strings given to the sanitizers are made of
EscapeAlphabet == {"&", "<", ">", "a"}

MaxEscapeLen == 3

EscapeInputs ==
  UNION { [1..k -> EscapeAlphabet] : k \in 0..MaxEscapeLen }

Repeat(c, k) == [ i \in 1..k |-> c ]

\* arguments for the Message constructor: valid ones, and ones that break a
\* field's rule (type, length, alphabet, pattern, enumeration)
UsernameInputs ==
  { JStr(Alice), JStr(Bob), JStr(Repeat("a", 32)), JStr(Repeat("a", 33)),
    JStr(<< "a", " ", "b" >>), JStr(<< >>), JNumber }

TsMinutes == SubSeq(Ts, 1, 16)

TsMicros == TsFraction \o << "4", "5", "6" >>

\* a fraction that follows another character than '.'
TsOddSeparator == Ts \o << "x", "1", "2", "3" >>

TimestampInputs ==
  { JStr(Ts), JStr(TsMinutes), JStr(TsFraction), JStr(TsMicros),
    JStr(TsOddSeparator), JStr(SubSeq(Ts, 1, 18)),
    JStr(TsFraction \o << "4" >>), JUndefined }

ExpiresInputs ==
  { JStr(Expires), JStr(<< "1", "2" >> \o Expires), JStr(Tail(Expires)),
    JStr(SubSeq(Expires, 1, 9)), JNull }

LevelInputs ==
  { JStr(Info), JStr(<< "c", "r", "i", "t", "i", "c", "a", "l" >>), JStr(Loud),
    JStr(<< "I", "N", "F", "O" >>), JUndefined }

MessageInputs ==
  { JStr(TextX), JStr(Repeat("a", 1024)), JStr(Repeat("a", 1025)),
    JStr(<< >>), JNumber }

\* blocks for the parser: a valid one (one message), one whose message has a
\* bad field, ones whose messages is no array, is empty or has 17 entries,
\* one whose title is no string, and null
GoodBlock == Block(Title, << Msg(Alice, Ts, Info, TextX) >>)

BadFieldBlock == Block(Title, << Msg(Alice, Ts, Loud, TextX) >>)

NoArrayBlock == JObj([title |-> JStr(Title), messages |-> JStr(Title)])

EmptyArrayBlock == Block(Title, << >>)

TooLongBlock == Block(Title, Repeat(Msg(Alice, Ts, Info, TextX), 17))

BadTitleBlock == JObj([title |-> JNumber,
                       messages |-> JArr(<< Msg(Bob, Ts, Info, TextY) >>)])

BlockInputs ==
  { GoodBlock, BadFieldBlock, NoArrayBlock, EmptyArrayBlock, TooLongBlock,
    BadTitleBlock, JNull }

MaxBlocks == 2

BlocksInputs == UNION { [1..k -> BlockInputs] : k \in 0..MaxBlocks }

\* decoded JSON values for the parser
JsonInputs ==
  { JNull, JNumber, JStr(Title), JArr(<< >>),
    JObj([popup |-> JBool(TRUE)]),
    JObj([popup |-> JBool(TRUE), blocks |-> JStr(Title)]),
    JObj([popup |-> JBool(TRUE), blocks |-> JNull]) }
  \cup { JObj([popup |-> p, timestamp |-> JStr(Ts), blocks |-> JArr(bs)]) :
           p \in {JBool(TRUE), JStr(Title)}, bs \in BlocksInputs }

\* escapeHtml of either revision is applied to a string
EscapeProbe ==
  /\ probe = NoProbe
  /\ \E s \in EscapeInputs :
       probe' = [op |-> "escapeHtml", input |-> s,
                 hardened |-> escapeHtml(s), simple |-> escapeHtmlSimple(s)]
  /\ UNCHANGED << isDisposed, n, started, serviceState, retryDelay, last_rendered,
                  newAnnouncement, openAnnouncementButton, textContent, color,
                  title, registrations, pollTimers, recoveryTimers, fetching,
                  decoding, dialogs, lastCycle, backoffLog, clickedSince >>

\* new Message(username, timestamp, expires, level, message)
MessageProbe ==
  /\ probe = NoProbe
  /\ \E u \in UsernameInputs, t \in TimestampInputs, e \in ExpiresInputs,
        l \in LevelInputs, m \in MessageInputs :
       probe' = [op |-> "Message", username |-> u, timestamp |-> t,
                 expires |-> e, level |-> l, message |-> m,
                 result |-> Message(u, t, e, l, m)]
  /\ UNCHANGED << isDisposed, n, started, serviceState, retryDelay, last_rendered,
                  newAnnouncement, openAnnouncementButton, textContent, color,
                  title, registrations, pollTimers, recoveryTimers, fetching,
                  decoding, dialogs, lastCycle, backoffLog, clickedSince >>

\* jsonToAnnouncementsData(jsonData)
ParseProbe ==
  /\ probe = NoProbe
  /\ \E j \in JsonInputs :
       probe' = [op |-> "parse", input |-> j,
                 result |-> jsonToAnnouncementsData(j)]
  /\ UNCHANGED << isDisposed, n, started, serviceState, retryDelay, last_rendered,
                  newAnnouncement, openAnnouncementButton, textContent, color,
                  title, registrations, pollTimers, recoveryTimers, fetching,
                  decoding, dialogs, lastCycle, backoffLog, clickedSince >>

PureNext == EscapeProbe \/ MessageProbe \/ ParseProbe

\* the sanitizers, the Message constructor and the parser on bounded inputs
PureSpec == Init /\ [][PureNext]_vars

\* ------------------------------------------- the poller of src/src/index.ts
\* The constructors and the parser of this revision make the tests of the
\* other one, in the same order; they throw a plain Error, whose class the
\* catch block does not read, and they store every field through escapeHtml.
SimpleMessageOf(msg) ==
  [username |-> escapeHtmlSimple(Prop(msg, "username").v),
   timestamp |-> escapeHtmlSimple(Prop(msg, "timestamp").v),
   expires |-> escapeHtmlSimple(Prop(msg, "expires").v),
   level |-> escapeHtmlSimple(Prop(msg, "level").v),
   message |-> escapeHtmlSimple(Prop(msg, "message").v)]

SimpleBlockOf(blockData) ==
  [title |-> escapeHtmlSimple(Prop(blockData, "title").v),
   messages |-> [ i \in 1..Len(Prop(blockData, "messages").v) |->
                    SimpleMessageOf(Prop(blockData, "messages").v[i]) ]]

SimpleDataOf(jsonData) ==
  [popup |-> Prop(jsonData, "popup").v,
   timestamp |-> escapeHtmlSimple(TextOf(Prop(jsonData, "timestamp"))),
   blocks |-> [ i \in 1..Len(Prop(jsonData, "blocks").v) |->
                  SimpleBlockOf(Prop(jsonData, "blocks").v[i]) ]]

\* jsonToAnnouncementsData returns for payload i
SimpleOk(i) == Parsed[i].kind = "ok"

\* announcements.toHtml() for payload i
SimpleRendered ==
  [ i \in PayloadIds |->
      IF SimpleOk(i) THEN AnnouncementsToHtml(SimpleDataOf(Payloads[i]))
      ELSE << >> ]

\* createAnnouncementsButton: the widget is constructed and registered only
\* while the field is null; the label is written to the widget the field holds
SimpleCreateAnnouncementsButton(s, isNew) ==
  LET s1 == IF ~s.openAnnouncementButton
            THEN [s EXCEPT !.openAnnouncementButton = TRUE,
                           !.registrations = @ + 1]
            ELSE s
  IN [s1 EXCEPT !.textContent = IF ~isNew THEN LabelSeen ELSE LabelUnseen]

SimpleOpenAnnouncements(s) ==
  [s EXCEPT !.newAnnouncement = FALSE,
            !.dialogs = Append(@, s.last_rendered)]

\* ButtonWidget's node.onclick
SimpleOnclick(s) ==
  LET s1 == SimpleOpenAnnouncements([s EXCEPT !.newAnnouncement = FALSE])
  IN SimpleCreateAnnouncementsButton(s1, s1.newAnnouncement)

\* the try block of updateAnnouncements from the rendering on
SimpleTryBlock(s, popup, rendered) ==
  LET s1 == IF rendered # s.last_rendered
            THEN [s EXCEPT !.newAnnouncement = TRUE,
                           !.last_rendered = rendered]
            ELSE s
      s2 == SimpleCreateAnnouncementsButton(s1, s1.newAnnouncement)
      s3 == IF s2.newAnnouncement /\ popup
            THEN SimpleOpenAnnouncements(s2)
            ELSE s2
      s4 == IF s1.openAnnouncementButton
            THEN [s1 EXCEPT !.textContent = ""]
            ELSE s1
  IN IF Len(s1.last_rendered) > 0 THEN s3 ELSE s4

\* a cycle of this revision ends: the instance is left as s, dispose() has
\* been called if disposes, and the timer for the next cycle is set after n
SimpleEndCycle(s, disposes, input, atJson) ==
  /\ Commit(SetPollTimer(s, n))
  /\ isDisposed' = (isDisposed \/ disposes)
  /\ fetching' = IF atJson THEN fetching ELSE fetching - 1
  /\ decoding' = IF atJson THEN decoding - 1 ELSE decoding
  /\ Len(pollTimers) + 1 + fetching' + decoding' <= MaxCycles
  /\ lastCycle' = input
  /\ clickedSince' = FALSE
  /\ UNCHANGED << probe, n, started, backoffLog >>

\* the catch block: dispose() on the widget the field holds, if any
SimpleCatchBlock(input, atJson) ==
  SimpleEndCycle(Self, openAnnouncementButton, input, atJson)

\* activate: myObject.updateAnnouncements(apiUrl, refreshInterval)
SimpleActivate ==
  /\ ~started
  /\ started' = TRUE
  /\ fetching' = fetching + 1
  /\ UNCHANGED << probe, isDisposed, n, serviceState, retryDelay,
                  last_rendered, newAnnouncement, openAnnouncementButton,
                  textContent, color, title, registrations, pollTimers,
                  recoveryTimers, decoding, dialogs, lastCycle, backoffLog,
                  clickedSince >>

\* the timer set at the end of updateAnnouncements fires
SimplePollTimerFires ==
  \E i \in DOMAIN pollTimers :
    /\ pollTimers' = SubSeq(pollTimers, 1, i - 1)
                       \o SubSeq(pollTimers, i + 1, Len(pollTimers))
    /\ fetching' = fetching + 1
    /\ UNCHANGED << probe, isDisposed, n, started, serviceState, retryDelay,
                    last_rendered, newAnnouncement, openAnnouncementButton,
                    textContent, color, title, registrations, recoveryTimers,
                    decoding, dialogs, lastCycle, backoffLog, clickedSince >>

\* await fetch(...) throws
SimpleFetchRejects ==
  /\ fetching > 0
  /\ SimpleCatchBlock(CycleInput("fetch", 0, 0), FALSE)

\* await fetch(...) returns a response; its status is not read
SimpleFetchResolves ==
  /\ fetching > 0
  /\ fetching' = fetching - 1
  /\ decoding' = decoding + 1
  /\ UNCHANGED << probe, isDisposed, n, started, serviceState, retryDelay,
                  last_rendered, newAnnouncement, openAnnouncementButton,
                  textContent, color, title, registrations, pollTimers,
                  recoveryTimers, dialogs, lastCycle, backoffLog,
                  clickedSince >>

\* await response.json() throws
SimpleJsonRejects ==
  /\ decoding > 0
  /\ SimpleCatchBlock(CycleInput("json", 200, 0), TRUE)

\* await response.json() returns the decoded payload
SimpleJsonResolves ==
  /\ decoding > 0
  /\ \E i \in PayloadIds :
       IF SimpleOk(i)
       THEN SimpleEndCycle(SimpleTryBlock(Self, Prop(Payloads[i], "popup").v,
                                          SimpleRendered[i]),
                           FALSE, CycleInput("json", 200, i), TRUE)
       ELSE SimpleCatchBlock(CycleInput("json", 200, i), TRUE)

\* the user clicks the button, which a disposed widget does not show
SimpleClick ==
  /\ openAnnouncementButton
  /\ ~isDisposed
  /\ Commit(SimpleOnclick(Self))
  /\ clickedSince' = TRUE
  /\ UNCHANGED << probe, isDisposed, n, started, fetching, decoding, lastCycle,
                  backoffLog >>

\* the user closes one of the open dialogs
SimpleCloseDialog ==
  \E i \in DOMAIN dialogs :
    /\ dialogs' = SubSeq(dialogs, 1, i - 1) \o SubSeq(dialogs, i + 1, Len(dialogs))
    /\ UNCHANGED << probe, isDisposed, n, started, serviceState, retryDelay,
                    last_rendered, newAnnouncement, openAnnouncementButton,
                    textContent, color, title, registrations, pollTimers,
                    recoveryTimers, fetching, decoding, lastCycle, backoffLog,
                    clickedSince >>

SimpleNext ==
  \/ SimpleActivate
  \/ SimplePollTimerFires
  \/ SimpleFetchRejects
  \/ SimpleFetchResolves
  \/ SimpleJsonRejects
  \/ SimpleJsonResolves
  \/ SimpleClick
  \/ SimpleCloseDialog

SimpleSpec == Init /\ [][SimpleNext]_vars

\* ------------------------------------------------------------ properties
\* a step in which a poll cycle ends; lastCycle' is what that cycle was given
CycleEnds == fetching' + decoding' < fetching + decoding

\* the cycle was given a response that is not ok and not retryable
NonRetryableInput(input) ==
  /\ input.stage = "fetch"
  /\ input.status # 0
  /\ input.status \notin 200..299
  /\ ~ConnectivityFault(input)

\* the cycle was given a payload that jsonToAnnouncementsData rejects with a
\* ValidationError
ValidationInput(input) ==
  /\ input.stage = "json"
  /\ input.payload # 0
  /\ Parsed[input.payload].kind = "ValidationError"

\* the cycle was given a payload that validates
SuccessInput(input) ==
  /\ input.stage = "json"
  /\ input.payload # 0
  /\ Parsed[input.payload].kind = "ok"

\* the delays that a run of faults starting at initialRetryDelay waits
DoublingDelays == << 10000, 20000, 40000, 80000, 160000, 320000 >>

IsPrefix(s, t) == Len(s) <= Len(t) /\ s = SubSeq(t, 1, Len(s))

\* a run of consecutive connectivity faults that began with retryDelay at
\* initialRetryDelay
FaultRunFromInitial ==
  /\ ConnectivityFault(lastCycle)
  /\ backoffLog # << >>
  /\ backoffLog[1] = 10000

\* C1, as stated: consecutive connectivity faults starting from retryDelay =
\* 10000 wait 10000, 20000, 40000, ... capped at 600000, and the 600000 ms
\* ceiling is among the delays waited before the fault that sets serviceState
\* to failed.
C1_CeilingIsWaited ==
  (FaultRunFromInitial /\ serviceState = "failed")
    => \E i \in DOMAIN backoffLog : backoffLog[i] = 600000

\* C1, amended: the delays waited are 10000, 20000, ..., 320000, doubling each
\* time; retryDelay then holds the 600000 cap, which is never itself waited:
\* the fault that finds retryDelay at the cap sets serviceState to failed
\* (and reschedules after n, with retryDelay back at 10000).
C1_BackoffSequence ==
  FaultRunFromInitial =>
    /\ IsPrefix(backoffLog, DoublingDelays)
    /\ serviceState \in {"degraded", "failed"}
    /\ serviceState = "failed" <=> (backoffLog = DoublingDelays /\ retryDelay = 10000)
    /\ serviceState = "degraded" =>
         retryDelay = IF Len(backoffLog) = 6 THEN 600000
                      ELSE DoublingDelays[Len(backoffLog) + 1]

\* C1 witness: a run of faults went through the whole sequence and failed
C1_Witness ==
  /\ FaultRunFromInitial
  /\ serviceState = "failed"
  /\ backoffLog = DoublingDelays
  /\ pollTimers = << n >>

\* C2: a connectivity fault handled with retryDelay at maxRetryDelay sets
\* serviceState to failed, makes sure the button exists, resets retryDelay to
\* initialRetryDelay and schedules the next cycle after n; any other
\* connectivity fault sets serviceState to degraded and schedules the next
\* cycle after the retryDelay it found (before doubling it).
C2_FaultBranches ==
  [][ (CycleEnds /\ ConnectivityFault(lastCycle')) =>
        IF retryDelay >= 600000
        THEN /\ serviceState' = "failed"
             /\ openAnnouncementButton'
             /\ retryDelay' = 10000
             /\ pollTimers' = Append(pollTimers, n)
        ELSE /\ serviceState' = "degraded"
             /\ pollTimers' = Append(pollTimers, retryDelay) ]_vars

\* C2 witness: a fault that found retryDelay at the cap has just been handled
C2_Witness ==
  /\ ConnectivityFault(lastCycle)
  /\ serviceState = "failed"
  /\ retryDelay = 10000
  /\ openAnnouncementButton
  /\ textContent = LabelUnavailable
  /\ fetching = 0

\* C3: a validation fault leaves the controller and its button as they were
\* (nothing of the payload is rendered) and schedules the next cycle after n,
\* whatever serviceState was.
C3_ValidationFrame ==
  [][ (CycleEnds /\ ValidationInput(lastCycle')) =>
        /\ UNCHANGED << serviceState, retryDelay, last_rendered,
                        newAnnouncement, openAnnouncementButton, textContent,
                        color, title, registrations, recoveryTimers, dialogs >>
        /\ pollTimers' = Append(pollTimers, n) ]_vars

\* C3 witness: a validation fault was handled while the service was degraded
C3_Witness ==
  /\ ValidationInput(lastCycle)
  /\ serviceState = "degraded"
  /\ retryDelay = 40000
  /\ pollTimers = << n >>

\* C4: a response that is not ok and not retryable sets serviceState to
\* normal and retryDelay to initialRetryDelay, clears the text of an existing
\* button, calls the recovery notice (green, "restored" tooltip, 3 s timer)
\* when serviceState was degraded or failed, leaves last_rendered and
\* newAnnouncement alone and schedules the next cycle after n.
C4_NonRetryable ==
  [][ (CycleEnds /\ NonRetryableInput(lastCycle')) =>
        /\ serviceState' = "normal"
        /\ retryDelay' = 10000
        /\ UNCHANGED << last_rendered, newAnnouncement, dialogs,
                        openAnnouncementButton, registrations >>
        /\ openAnnouncementButton => textContent' = ""
        /\ IF serviceState # "normal" /\ openAnnouncementButton
           THEN /\ color' = "green"
                /\ title' = Tooltip("Announcement service has been restored", 0)
                /\ recoveryTimers' = recoveryTimers + 1
           ELSE UNCHANGED << color, title, recoveryTimers >>
        /\ pollTimers' = Append(pollTimers, n) ]_vars

\* C4 witness: a non-retryable response ended a failed service
C4_Witness ==
  /\ NonRetryableInput(lastCycle)
  /\ serviceState = "normal"
  /\ color = "green"
  /\ textContent = ""
  /\ recoveryTimers = 1
  /\ pollTimers = << n >>

\* C5: a response that is not ok takes the backoff branch (serviceState
\* becomes degraded or failed) exactly when its status is 401, 403, 407 or in
\* 500..599; a rejected fetch always takes it; any other status that is not
\* ok leaves serviceState normal.
C5_RetryableStatuses ==
  [][ (CycleEnds /\ lastCycle'.stage = "fetch") =>
        /\ serviceState' \in {"degraded", "failed"}
             <=> \/ lastCycle'.status \in {0, 401, 403, 407}
                 \/ lastCycle'.status \in 500..599
        /\ serviceState' \notin {"degraded", "failed"} => serviceState' = "normal" ]_vars

\* C5 witness: a 407 response has put the service in the degraded state
C5_Witness ==
  /\ lastCycle.stage = "fetch"
  /\ lastCycle.status = 407
  /\ serviceState = "degraded"
  /\ backoffLog = << 10000 >>

\* the payload of the cycle that ended last, for a cycle that decoded one
PopupOf(input) == Parsed[input.payload].data.popup

RenderingOf(input) == Rendered[input.payload]

\* C6, as stated: a validated response sets serviceState to normal and
\* retryDelay to initialRetryDelay, and sets newAnnouncement to true and
\* last_rendered to the rendering exactly when the rendering differs from
\* last_rendered; otherwise both keep their values.
C6_AsStated ==
  [][ (CycleEnds /\ SuccessInput(lastCycle')) =>
        /\ serviceState' = "normal"
        /\ retryDelay' = 10000
        /\ IF RenderingOf(lastCycle') # last_rendered
           THEN newAnnouncement' = TRUE /\ last_rendered' = RenderingOf(lastCycle')
           ELSE UNCHANGED << newAnnouncement, last_rendered >> ]_vars

\* C6, amended: as stated, except that a cycle that opens the modal itself
\* (popup) ends with newAnnouncement false.
C6_NewDetection ==
  [][ (CycleEnds /\ SuccessInput(lastCycle')) =>
        /\ serviceState' = "normal"
        /\ retryDelay' = 10000
        /\ last_rendered' = RenderingOf(lastCycle')
        /\ RenderingOf(lastCycle') = last_rendered => last_rendered' = last_rendered
        /\ newAnnouncement' =
             IF dialogs' # dialogs THEN FALSE
             ELSE IF RenderingOf(lastCycle') # last_rendered THEN TRUE
             ELSE newAnnouncement ]_vars

\* C6 witness: a poll has found a new rendering and marked it unseen
C6_Witness ==
  /\ SuccessInput(lastCycle)
  /\ lastCycle.payload = 1
  /\ ~lastCycle.again
  /\ last_rendered = Rendered[1]
  /\ newAnnouncement
  /\ dialogs = << >>

\* the second of two consecutive successful polls with identical payloads
\* and no click between them ends
SecondIdenticalPoll == CycleEnds /\ SuccessInput(lastCycle') /\ lastCycle'.again

\* C7, as stated: after the second of two consecutive successful polls with
\* identical payloads newAnnouncement is false, and that poll opens no modal.
C7_AsStated ==
  [][ SecondIdenticalPoll => (newAnnouncement' = FALSE /\ dialogs' = dialogs) ]_vars

\* C7, amended: the second poll leaves newAnnouncement as the first left it
\* (false if the first opened the modal, still true if the first marked
\* unseen content that nobody opened), leaves last_rendered alone and opens
\* no modal.
C7_SecondPollInert ==
  [][ SecondIdenticalPoll =>
        /\ newAnnouncement' = newAnnouncement
        /\ last_rendered' = last_rendered
        /\ dialogs' = dialogs ]_vars

\* C7 witness: the same payload was polled twice and its content is unseen
C7_Witness ==
  /\ SuccessInput(lastCycle)
  /\ lastCycle.again
  /\ newAnnouncement
  /\ last_rendered = RenderingOf(lastCycle)

\* C8, as stated: a payload with popup = true whose rendering differs from
\* the previous rendering opens the modal, and newAnnouncement is false
\* right after.
C8_AsStated ==
  [][ (CycleEnds /\ SuccessInput(lastCycle') /\ PopupOf(lastCycle')
         /\ RenderingOf(lastCycle') # last_rendered)
        => (dialogs' = Append(dialogs, RenderingOf(lastCycle'))
              /\ newAnnouncement' = FALSE) ]_vars

\* C8, amended: a payload with popup = true whose rendering is not empty and
\* differs from the previous rendering opens the modal with that rendering;
\* a poll opens the modal only for a non-empty rendering with popup = true
\* that is still unseen, so never again while the rendering stays the same;
\* newAnnouncement is false right after the modal is shown.
C8_AutoPopup ==
  [][ (CycleEnds /\ SuccessInput(lastCycle')) =>
        /\ (PopupOf(lastCycle') /\ RenderingOf(lastCycle') # last_rendered
              /\ RenderingOf(lastCycle') # << >>)
             => dialogs' = Append(dialogs, RenderingOf(lastCycle'))
        /\ dialogs' # dialogs =>
             /\ PopupOf(lastCycle')
             /\ RenderingOf(lastCycle') # << >>
             /\ RenderingOf(lastCycle') # last_rendered \/ newAnnouncement
             /\ dialogs' = Append(dialogs, RenderingOf(lastCycle'))
             /\ newAnnouncement' = FALSE
        /\ (RenderingOf(lastCycle') = last_rendered /\ ~newAnnouncement)
             => dialogs' = dialogs ]_vars

\* C8 witness: a poll has opened the modal with a new rendering
C8_Witness ==
  /\ SuccessInput(lastCycle)
  /\ lastCycle.payload = 3
  /\ ~clickedSince
  /\ dialogs = << Rendered[3] >>
  /\ ~newAnnouncement

\* C9: at most one poll cycle is pending or in flight (exactly one once
\* started), and a poll timer is set only by a cycle that ends, one per cycle.
C9_SingleCycle ==
  /\ [](Len(pollTimers) + fetching + decoding = IF started THEN 1 ELSE 0)
  /\ [][ Len(pollTimers') > Len(pollTimers) =>
           (CycleEnds /\ Len(pollTimers') = Len(pollTimers) + 1) ]_vars

\* C9 witness: a cycle is decoding its response after an earlier fault, with
\* no timer pending
C9_Witness ==
  /\ started
  /\ decoding = 1
  /\ fetching = 0
  /\ pollTimers = << >>
  /\ serviceState = "degraded"

\* C10: whenever no cycle is in flight, a poll timer is pending and, timers
\* being fair, the next fetch is eventually issued: after every outcome.
C10_PollsForever ==
  (started /\ fetching = 0 /\ decoding = 0) ~> (fetching > 0)

\* C10 witness: a validation fault ended a cycle while the service had
\* failed, and the next cycle waits for its timer
C10_Witness ==
  /\ started
  /\ fetching = 0
  /\ decoding = 0
  /\ ValidationInput(lastCycle)
  /\ serviceState = "failed"
  /\ Len(pollTimers) = 1

\* the label that updateButtonForServiceState gives in the current state
SteadyLabel ==
  CASE serviceState = "normal" ->
         IF ~newAnnouncement THEN LabelSeen ELSE LabelUnseen
    [] serviceState = "degraded" -> LabelRetrying
    [] serviceState = "failed" -> LabelUnavailable

\* C11: whenever the button exists and no recovery notice is being shown,
\* its label is the function of serviceState and newAnnouncement that
\* updateButtonForServiceState computes.
C11_LabelFunction ==
  (openAnnouncementButton /\ recoveryTimers = 0) => textContent = SteadyLabel

C13_RecoveryNotice ==
  /\ [][ (serviceState \in {"degraded", "failed"} /\ serviceState' = "normal"
            /\ openAnnouncementButton)
           => (textContent' = LabelRestored /\ color' = "green"
                 /\ recoveryTimers' = recoveryTimers + 1) ]_vars
  /\ [][ recoveryTimers' < recoveryTimers =>
           /\ textContent' =
                CASE serviceState' = "normal" ->
                       IF ~newAnnouncement' THEN LabelSeen ELSE LabelUnseen
                  [] serviceState' = "degraded" -> LabelRetrying
                  [] serviceState' = "failed" -> LabelUnavailable
           /\ title' = updateButtonTooltip(Self).title ]_vars

\* a step in which the user clicks the button
ClickStep == dialogs' # dialogs /\ Len(dialogs') > Len(dialogs) /\ ~CycleEnds

\* C14: openAnnouncements changes newAnnouncement (to false) and shows a
\* dialog with the current last_rendered, and nothing else; so a click
\* leaves last_rendered, serviceState, retryDelay and the pending poll timer
\* alone, a poll that opens the modal shows the rendering it has just stored,
\* and newAnnouncement turns true again only in a successful poll whose
\* rendering differs from last_rendered.
C14_OpenFrame ==
  /\ [](openAnnouncements(Self) =
          [Self EXCEPT !.newAnnouncement = FALSE,
                       !.dialogs = Append(dialogs, last_rendered)])
  /\ [][ ClickStep =>
           /\ newAnnouncement' = FALSE
           /\ dialogs' = Append(dialogs, last_rendered)
           /\ UNCHANGED << last_rendered, serviceState, retryDelay,
                           pollTimers >> ]_vars
  /\ [][ (CycleEnds /\ dialogs' # dialogs) =>
           /\ newAnnouncement' = FALSE
           /\ dialogs' = Append(dialogs, last_rendered') ]_vars
  /\ [][ (~newAnnouncement /\ newAnnouncement') =>
           /\ CycleEnds
           /\ SuccessInput(lastCycle')
           /\ RenderingOf(lastCycle') # last_rendered ]_vars

\* C14 witness: the user has opened an unseen announcement by a click while
\* the next poll was pending
C14_Witness ==
  /\ clickedSince
  /\ SuccessInput(lastCycle)
  /\ lastCycle.payload = 1
  /\ dialogs = << Rendered[1] >>
  /\ last_rendered = Rendered[1]
  /\ ~newAnnouncement
  /\ Len(pollTimers) = 1

\* a step in which a cycle ends that has decoded a payload
DecodedCycleEnds ==
  CycleEnds /\ lastCycle'.stage = "json" /\ lastCycle'.payload # 0

\* C15: jsonToAnnouncementsData, given any decoded JSON value, returns a
\* validated AnnouncementsData or fails with a ValidationError and nothing
\* else; so a 2xx payload that does not validate is handled by the
\* validation branch (state kept, next cycle after n), never by backoff.
C15_ParserTotal ==
  [][ DecodedCycleEnds =>
        /\ Parsed[lastCycle'.payload].kind \in {"ok", "ValidationError"}
        /\ Parsed[lastCycle'.payload].kind # "ok" =>
             /\ UNCHANGED << serviceState, retryDelay >>
             /\ pollTimers' = Append(pollTimers, n) ]_vars

\* the blocks whose messages is not an array of length 1..16
StructurallyBad == {NoArrayBlock, EmptyArrayBlock, TooLongBlock}

\* the parser was given a value that has a blocks array
ParsedBlocksArray ==
  /\ probe.op = "parse"
  /\ ~PropThrows(probe.input)
  /\ Prop(probe.input, "blocks").t = "array"

\* the first position of bs that holds a structurally bad block (0: none)
FirstBad(bs) ==
  IF \A i \in DOMAIN bs : bs[i] \notin StructurallyBad THEN 0
  ELSE CHOOSE i \in DOMAIN bs :
         /\ bs[i] \in StructurallyBad
         /\ \A j \in 1..(i - 1) : bs[j] \notin StructurallyBad

\* C16, as stated: when blocks is absent or not an array, or when any block's
\* messages is not an array of length 1..16, the parse fails with the
\* structural ValidationError and no Message has been constructed, wherever
\* the malformed block stands.
C16_AsStated ==
  /\ (probe.op = "parse" /\ ~PropThrows(probe.input)
        /\ Prop(probe.input, "blocks").t # "array")
       => probe.result = ParseFail("ValidationError", "Bad blocks array.", 0)
  /\ (ParsedBlocksArray /\ FirstBad(Prop(probe.input, "blocks").v) > 0)
       => probe.result = ParseFail("ValidationError", "Bad messages array.", 0)

\* C16, amended: when blocks is absent or not an array the parse fails with
\* 'Bad blocks array.' before any Message is constructed. Blocks are handled
\* one after the other, each one's messages check before its own Messages:
\* with the first malformed block at position k, no Message of block k or of
\* a later block is constructed, the Messages of blocks 1..k-1 have been
\* constructed before, and the structural fault is the outcome when those
\* blocks are valid (a fault of an earlier block is reported instead).
C16_StructuralFirst ==
  /\ (probe.op = "parse" /\ ~PropThrows(probe.input)
        /\ Prop(probe.input, "blocks").t # "array")
       => probe.result = ParseFail("ValidationError", "Bad blocks array.", 0)
  /\ (ParsedBlocksArray /\ FirstBad(Prop(probe.input, "blocks").v) > 0)
       => /\ probe.result.kind # "ok"
          /\ probe.result.built <= FirstBad(Prop(probe.input, "blocks").v) - 1
          /\ (\A j \in 1..(FirstBad(Prop(probe.input, "blocks").v) - 1) :
                Prop(probe.input, "blocks").v[j] = GoodBlock)
               => probe.result =
                    ParseFail("ValidationError", "Bad messages array.",
                              FirstBad(Prop(probe.input, "blocks").v) - 1)

\* C16 witness: a valid block came before a block whose messages is no array
C16_Witness ==
  /\ ParsedBlocksArray
  /\ Prop(probe.input, "blocks").v = << GoodBlock, NoArrayBlock >>
  /\ probe.result.reason = "Bad messages array."
  /\ probe.result.built = 1

\* the arguments, among the ones tried, that satisfy each field's rule
ValidUsernames == { JStr(Alice), JStr(Bob), JStr(Repeat("a", 32)) }

\* (the pattern as the constructor writes it: the character before the
\* fraction is matched by an unescaped '.', so it may be any character)
ValidTimestamps ==
  { JStr(Ts), JStr(TsMinutes), JStr(TsFraction), JStr(TsMicros),
    JStr(TsOddSeparator) }

ValidExpires == { JStr(Expires), JStr(<< "1", "2" >> \o Expires) }

ValidLevels == { JStr(Info), JStr(<< "c", "r", "i", "t", "i", "c", "a", "l" >>) }

ValidMessages == { JStr(TextX), JStr(Repeat("a", 1024)) }

\* the reason of the first rule, in the order username, timestamp, expires,
\* level, message, that the arguments of the constructor break ("": none)
FirstViolated ==
  IF probe.username \notin ValidUsernames THEN "Bad message username."
  ELSE IF probe.timestamp \notin ValidTimestamps THEN "Bad message timestamp."
  ELSE IF probe.expires \notin ValidExpires THEN "Bad expires time."
  ELSE IF probe.level \notin ValidLevels THEN "Bad level setting."
  ELSE IF probe.message \notin ValidMessages THEN "Bad message content."
  ELSE ""

EmptyPollEnds ==
  CycleEnds /\ SuccessInput(lastCycle') /\ RenderingOf(lastCycle') = << >>

\* C18: a valid payload with an empty blocks array renders to the empty
\* string; a successful poll whose rendering is empty creates and registers
\* no button, blanks the text of an existing button and keeps it registered,
\* and opens no modal, also when popup is true.
C18_EmptyRendering ==
  /\ [](/\ Parsed[4].kind = "ok"
        /\ Parsed[4].data.blocks = << >>
        /\ Parsed[4].data.popup
        /\ Rendered[4] = << >>)
  /\ [][ EmptyPollEnds =>
           /\ last_rendered' = << >>
           /\ openAnnouncementButton' = openAnnouncementButton
           /\ registrations' = registrations
           /\ openAnnouncementButton => textContent' = ""
           /\ dialogs' = dialogs ]_vars

\* C18 witness: a poll with popup set has replaced shown content by an empty
\* rendering: the button is blank and registered, no modal is open
C18_Witness ==
  /\ SuccessInput(lastCycle)
  /\ lastCycle.payload = 4
  /\ ~clickedSince
  /\ newAnnouncement
  /\ openAnnouncementButton
  /\ registrations = 1
  /\ textContent = ""
  /\ last_rendered = << >>
  /\ dialogs = << >>

\* the cycle was given something that the catch block takes as a fault of
\* the connection: a rejected fetch, a retryable status, or a body that
\* cannot be decoded or read
FaultInput(input) ==
  /\ input.stage # "none"
  /\ ~SuccessInput(input)
  /\ ~ValidationInput(input)
  /\ ~NonRetryableInput(input)

\* C19: serviceState leaves normal only for degraded; it becomes failed only
\* from degraded, at the end of a cycle whose fault finds retryDelay at
\* maxRetryDelay, never from normal; it becomes normal again only at the end
\* of a cycle with a validated 2xx response or a non-retryable response.
C19_Escalation ==
  /\ [][ (serviceState = "normal" /\ serviceState' # "normal") =>
           /\ serviceState' = "degraded"
           /\ CycleEnds
           /\ FaultInput(lastCycle') ]_vars
  /\ [][ (serviceState # "failed" /\ serviceState' = "failed") =>
           /\ serviceState = "degraded"
           /\ CycleEnds
           /\ FaultInput(lastCycle')
           /\ retryDelay = maxRetryDelay ]_vars
  /\ [][ (serviceState # "normal" /\ serviceState' = "normal") =>
           /\ CycleEnds
           /\ SuccessInput(lastCycle') \/ NonRetryableInput(lastCycle') ]_vars
  /\ [][ (CycleEnds /\ FaultInput(lastCycle') /\ serviceState = "normal") =>
           serviceState' = "degraded" ]_vars

\* C19 witness: the service is failed after a run of connectivity faults
\* that started from normal and climbed through every backoff delay
C19_Witness ==
  /\ serviceState = "failed"
  /\ lastCycle.stage = "fetch"
  /\ lastCycle.status = 500
  /\ backoffLog = DoublingDelays
  /\ retryDelay = initialRetryDelay

\* the number of positions of s that hold c
CountOf(s, c) == Cardinality({ i \in DOMAIN s : s[i] = c })

\* out starts an entity of '&', '<' or '>' at position i
EntityAt(out, i) ==
  \/ i + 4 <= Len(out) /\ SubSeq(out, i, i + 4) = << "&", "a", "m", "p", ";" >>
  \/ i + 3 <= Len(out) /\ SubSeq(out, i, i + 3) = << "&", "l", "t", ";" >>
  \/ i + 3 <= Len(out) /\ SubSeq(out, i, i + 3) = << "&", "g", "t", ";" >>

\* out is html with each '&', '<' and '>' replaced by its entity
EscapedForm(html, out) ==
  /\ \A i \in DOMAIN out : out[i] \notin {"<", ">"}
  /\ \A i \in DOMAIN out : out[i] = "&" => EntityAt(out, i)
  /\ Len(out) = Len(html) + 4 * CountOf(html, "&")
                  + 3 * CountOf(html, "<") + 3 * CountOf(html, ">")

\* C20: escapeHtml, in both revisions, returns its argument with each '&',
\* '<' and '>' replaced by its entity, so the result holds no '<' and no '>'.
C20_EscapesMarkup ==
  probe.op = "escapeHtml" =>
    /\ EscapedForm(probe.input, probe.hardened)
    /\ EscapedForm(probe.input, probe.simple)

\* C21: retryDelay stays between initialRetryDelay and maxRetryDelay, and it
\* is above initialRetryDelay exactly when serviceState is degraded (it is
\* initialRetryDelay when serviceState is normal or failed), also when
\* validation faults come between connectivity faults.
C21_DelayRange ==
  /\ initialRetryDelay <= retryDelay
  /\ retryDelay <= maxRetryDelay
  /\ (retryDelay > initialRetryDelay) <=> (serviceState = "degraded")
  /\ serviceState \in {"normal", "failed"} => retryDelay = initialRetryDelay

\* C21 witness: a validation fault has come in the middle of a run of
\* connectivity faults that has brought retryDelay to the cap
C21_Witness ==
  /\ ValidationInput(lastCycle)
  /\ serviceState = "degraded"
  /\ retryDelay = maxRetryDelay
  /\ backoffLog = << >>

\* C22: once serviceState is failed it stays failed until a cycle ends with
\* a validated 2xx response or a non-retryable response; no connectivity
\* fault and no validation fault moves it from failed back to degraded.
C22_FailedIsSticky ==
  [][ serviceState = "failed" =>
        /\ serviceState' # "degraded"
        /\ serviceState' # "failed" =>
             /\ CycleEnds
             /\ SuccessInput(lastCycle') \/ NonRetryableInput(lastCycle') ]_vars

\* C23: the text of a button that a cycle has cleared stays empty until the
\* next cycle ends or the user clicks; the callback of a timer that
\* showRecoveryNotification has set does not relabel it in between.
C23_ClearedStaysBlank ==
  [][ (openAnnouncementButton /\ textContent = "" /\ ~CycleEnds /\ ~ClickStep)
        => textContent' = "" ]_vars

\* C24: whenever the modal is opened, by a poll or by a click, last_rendered
\* is not empty, so no modal shows empty content (not even from a button
\* that was created to show the degraded or failed indicator before any
\* content was fetched); and newAnnouncement implies that last_rendered is
\* not empty.
C24_ModalHasContent ==
  /\ [](newAnnouncement => last_rendered # << >>)
  /\ [](\A i \in DOMAIN dialogs : dialogs[i] # << >>)
  /\ [][ Len(dialogs') > Len(dialogs) => last_rendered' # << >> ]_vars

\* a cycle of the simple revision ends in its catch block
SimpleErrorEnds ==
  /\ CycleEnds
  /\ lastCycle'.stage = "fetch" \/ lastCycle'.payload = 0
       \/ ~SimpleOk(lastCycle'.payload)

\* a cycle of the simple revision ends with content to show
SimpleContentEnds ==
  /\ CycleEnds
  /\ lastCycle'.stage = "json"
  /\ lastCycle'.payload # 0
  /\ SimpleOk(lastCycle'.payload)
  /\ SimpleRendered[lastCycle'.payload] # << >>

\* C25: in the simple revision every error of a cycle disposes the button
\* that exists and sets the next timer after n, with no backoff; a successful
\* poll with content leaves a live, registered button that shows one of the
\* two announcements labels, also after such a disposal.
C25_ButtonComesBack ==
  /\ [][ SimpleErrorEnds =>
           /\ openAnnouncementButton => isDisposed'
           /\ pollTimers' = Append(pollTimers, n)
           /\ UNCHANGED << serviceState, retryDelay >> ]_vars
  /\ [][ SimpleContentEnds =>
           /\ openAnnouncementButton'
           /\ ~isDisposed'
           /\ registrations' = 1
           /\ textContent' \in {LabelSeen, LabelUnseen}
           /\ pollTimers' = Append(pollTimers, n) ]_vars

\* the hh:mm[:ss] part of an accepted timestamp and what stands before it
UpToSeconds(s) == SubSeq(s, 1, IF Len(s) >= 19 THEN 19 ELSE 16)

\* C26: for every timestamp that the Message constructor accepts, the
\* timestamp cell of toHtml holds the timestamp without its fraction: nothing
\* that follows the hh:mm[:ss] part appears in the cell.
C26_FractionDropped ==
  (probe.op = "Message" /\ probe.result.err = "") =>
    fmtTimestamp(probe.result.val) =
      << "<td class='announce-timestamp'>[" >>
        \o UpToSeconds(probe.timestamp.v) \o << "]</td>" >>

====
